---- MODULE Spec2Model ----
(***************************************************************************)
(* The tool-calling chat loop of main.py (POST /chat) and its two tool     *)
(* executors, web_search and read_page.                                    *)
(*                                                                         *)
(* Python values are modelled as follows.                                  *)
(*   - A plain string is a TLA+ string; None is the reserved string None.  *)
(*   - A string built by an f-string is kept as the sequence of its        *)
(*     pieces (literal text, substituted values), see Str.                 *)
(*   - A dict is a sequence of <<key, value>> pairs in insertion order.    *)
(*   - JSON text is a sequence of tokens.                                  *)
(***************************************************************************)
EXTENDS Integers, Sequences, FiniteSets, TLC

\* ------------------------------------------------------------------ bounds
\* Most tool requests the model puts in one assistant message.
MaxRequests == 2
\* In how many places the model's and the network's behaviour may differ
\* from the plain run (one web_search request per turn, empty content,
\* every search succeeding) during one chat invocation.
MaxVaried == 2

\* How many chat invocations run at the same time.
MaxInvocations == 2

\* --------------------------------------------------------- program constants
max_turns == 10

None == "__None__"

Fallback ==
  "I've reached the maximum number of tool calls. Please try rephrasing your question."

\* Python truthiness of `message.content` (None and "" are falsy).
Truthy(c) == c \notin {None, ""}

\* `a or b` on strings.
Or(a, b) == IF Truthy(a) THEN a ELSE b

Range(s) == {s[i] : i \in 1..Len(s)}

\* ------------------------------------------------------------ Python values
\* A str is the sequence of its pieces, an int its value.
PyStr(parts) == [t |-> "str", parts |-> parts, n |-> 0]
PyInt(n) == [t |-> "int", parts |-> <<>>, n |-> n]

\* dict lookup: the value of the first pair with this key.
HasKey(d, k) == \E i \in 1..Len(d) : d[i][1] = k
Get(d, k) == d[CHOOSE i \in 1..Len(d) : d[i][1] = k][2]

\* ------------------------------------------------------------------- JSON
Punctuation == {"{", "}", ":", ","}

\* The tokens between the braces of an object: key : value , key : value ...
WellFormedBody(b) ==
  \/ Len(b) = 0
  \/ /\ Len(b) % 4 = 3
     /\ \A i \in 1..Len(b) :
          CASE i % 4 = 1 -> b[i] \notin Punctuation
            [] i % 4 = 2 -> b[i] = ":"
            [] i % 4 = 3 -> b[i] \notin Punctuation
            [] OTHER     -> b[i] = ","

\* json.loads on the text of a tool request's arguments: the dict it holds,
\* or JSONDecodeError.
json_loads(s) ==
  IF /\ Len(s) >= 2
     /\ s[1] = "{"
     /\ s[Len(s)] = "}"
     /\ WellFormedBody(SubSeq(s, 2, Len(s) - 1))
  THEN [ok |-> TRUE,
        value |-> [j \in 1..((Len(s) - 1) \div 4) |->
                     <<s[4 * j - 2], s[4 * j]>>]]
  ELSE [ok |-> FALSE, value |-> <<>>]

\* The tokens of one value.
ValueTokens(v) ==
  IF v.t = "str" THEN <<"\"">> \o v.parts \o <<"\"">>
  ELSE <<ToString(v.n)>>

RECURSIVE PairTokens(_)
PairTokens(d) ==
  IF Len(d) = 0 THEN <<>>
  ELSE <<"\"", d[1][1], "\"", ":">> \o ValueTokens(d[1][2])
       \o (IF Len(d) = 1 THEN <<>> ELSE <<",">> \o PairTokens(Tail(d)))

\* json.dumps on a tool result.
json_dumps(d) == <<"{">> \o PairTokens(d) \o <<"}">>

\* How far the length of a fetched page goes beyond (and falls short of)
\* max_chars when read_page is called directly.
MaxOver == 8

\* ------------------------------------------------------------ the network
\* What one outbound request does: it answers (kind "ok": `json` is the
\* decoded body of a search, `text` the characters of a page after the
\* markup is dropped and the whitespace collapsed), or it raises `kind`.
Net(kind, status_code, str, json, text) ==
  [kind |-> kind, status_code |-> status_code, str |-> str,
   json |-> json, text |-> text]

\* The classes an exception is an instance of.
Bases(kind) ==
  CASE kind = "ReadTimeout"     -> {"ReadTimeout", "Timeout", "RequestException", "Exception"}
    [] kind = "ConnectTimeout"  -> {"ConnectTimeout", "ConnectionError", "Timeout",
                                    "RequestException", "Exception"}
    [] kind = "HTTPError"       -> {"HTTPError", "RequestException", "Exception"}
    [] kind = "ConnectionError" -> {"ConnectionError", "RequestException", "Exception"}
    [] kind = "MissingSchema"   -> {"MissingSchema", "RequestException", "ValueError",
                                    "Exception"}
    [] OTHER                    -> {kind, "Exception"}

\* What a tool executor hands to its caller: a dict, or an exception.
Returns(d) == [raised |-> FALSE, value |-> d]
Raises == [raised |-> TRUE, value |-> <<>>]

\* ------------------------------------------------------------- executors
\* As web_search, but with the RequestException clause tried before the
\* Timeout clause.
web_search_RequestFirst(query, net) ==
  IF net.kind = "ok" THEN Returns(net.json)
  ELSE IF "RequestException" \in Bases(net.kind)
    THEN Returns(<< <<"error", PyStr(<<"Request failed: ", net.str>>)>>,
                    <<"query", PyStr(<<query>>)>> >>)
  ELSE IF "Timeout" \in Bases(net.kind)
    THEN Returns(<< <<"error", PyStr(<<"Search request timed out">>)>>,
                    <<"query", PyStr(<<query>>)>> >>)
  ELSE IF "Exception" \in Bases(net.kind)
    THEN Returns(<< <<"error", PyStr(<<"Unexpected error: ", net.str>>)>>,
                    <<"query", PyStr(<<query>>)>> >>)
  ELSE Raises

web_search(query, net) ==
  IF net.kind = "ok" THEN Returns(net.json)
  ELSE IF "Timeout" \in Bases(net.kind)
    THEN Returns(<< <<"error", PyStr(<<"Search request timed out">>)>>,
                    <<"query", PyStr(<<query>>)>> >>)
  ELSE IF "HTTPError" \in Bases(net.kind)
    THEN Returns(<< <<"error", PyStr(<<"HTTP error: ", ToString(net.status_code)>>)>>,
                    <<"query", PyStr(<<query>>)>> >>)
  ELSE IF "RequestException" \in Bases(net.kind)
    THEN Returns(<< <<"error", PyStr(<<"Request failed: ", net.str>>)>>,
                    <<"query", PyStr(<<query>>)>> >>)
  ELSE IF "Exception" \in Bases(net.kind)
    THEN Returns(<< <<"error", PyStr(<<"Unexpected error: ", net.str>>)>>,
                    <<"query", PyStr(<<query>>)>> >>)
  ELSE Raises

max_chars == 5000

\* "... (truncated)", character by character.
TruncationMarker ==
  <<".", ".", ".", " ", "(", "t", "r", "u", "n", "c", "a", "t", "e", "d", ")">>

\* As Truncate, but the cut text is returned without the marker.
Truncate_NoMarker(text) ==
  IF Len(text) > max_chars
  THEN SubSeq(text, 1, max_chars)
  ELSE text

\* text[:max_chars] + "... (truncated)" when the text is longer than max_chars.
Truncate(text) ==
  IF Len(text) > max_chars
  THEN SubSeq(text, 1, max_chars) \o TruncationMarker
  ELSE text

\* As read_page, but `length` is taken before the text is cut.
read_page_LengthBeforeCut(url, net) ==
  IF net.kind = "ok"
    THEN Returns(<< <<"url", PyStr(<<url>>)>>,
                    <<"text", PyStr(Truncate(net.text))>>,
                    <<"length", PyInt(Len(net.text))>> >>)
  ELSE IF "Timeout" \in Bases(net.kind)
    THEN Returns(<< <<"error", PyStr(<<"Page request timed out">>)>>,
                    <<"url", PyStr(<<url>>)>> >>)
  ELSE IF "HTTPError" \in Bases(net.kind)
    THEN Returns(<< <<"error", PyStr(<<"HTTP error: ", ToString(net.status_code)>>)>>,
                    <<"url", PyStr(<<url>>)>> >>)
  ELSE IF "RequestException" \in Bases(net.kind)
    THEN Returns(<< <<"error", PyStr(<<"Request failed: ", net.str>>)>>,
                    <<"url", PyStr(<<url>>)>> >>)
  ELSE IF "Exception" \in Bases(net.kind)
    THEN Returns(<< <<"error", PyStr(<<"Unexpected error: ", net.str>>)>>,
                    <<"url", PyStr(<<url>>)>> >>)
  ELSE Raises

read_page(url, net) ==
  IF net.kind = "ok"
    THEN Returns(<< <<"url", PyStr(<<url>>)>>,
                    <<"text", PyStr(Truncate(net.text))>>,
                    <<"length", PyInt(Len(Truncate(net.text)))>> >>)
  ELSE IF "Timeout" \in Bases(net.kind)
    THEN Returns(<< <<"error", PyStr(<<"Page request timed out">>)>>,
                    <<"url", PyStr(<<url>>)>> >>)
  ELSE IF "HTTPError" \in Bases(net.kind)
    THEN Returns(<< <<"error", PyStr(<<"HTTP error: ", ToString(net.status_code)>>)>>,
                    <<"url", PyStr(<<url>>)>> >>)
  ELSE IF "RequestException" \in Bases(net.kind)
    THEN Returns(<< <<"error", PyStr(<<"Request failed: ", net.str>>)>>,
                    <<"url", PyStr(<<url>>)>> >>)
  ELSE IF "Exception" \in Bases(net.kind)
    THEN Returns(<< <<"error", PyStr(<<"Unexpected error: ", net.str>>)>>,
                    <<"url", PyStr(<<url>>)>> >>)
  ELSE Raises

\* ------------------------------------------------------ inputs of one chat
UserMessages == {"What is 2+2?"}

\* The values of `message.content`.
Contents == {None, "", "4"}

\* The tool names the model asks for: the two of `tools`, and one that is not.
Names == {"web_search", "read_page", "calculator"}

ArgsQuery == <<"{", "query", ":", "X", "}">>
ArgsUrl == <<"{", "url", ":", "https://example.com", "}">>
\* An arguments text that stops in the middle.
ArgsCut == <<"{", "query", ":">>
ArgTexts == {ArgsQuery, ArgsUrl, ArgsCut}

ToolCall(id, name, arguments) ==
  [id |-> id, function |-> [name |-> name, arguments |-> arguments]]

\* The ids of the n tool requests of one assistant message: distinct, in
\* either order.
IdSeqs(n) == {[i \in 1..n |-> i], [i \in 1..n |-> n + 1 - i]}

\* Every assistant message with n tool requests.
ResponsesOf(n) ==
  {[content |-> c,
    tool_calls |-> [i \in 1..n |-> ToolCall(ids[i], nm[i], ar[i])]] :
     c \in Contents, ids \in IdSeqs(n),
     nm \in [1..n -> Names], ar \in [1..n -> ArgTexts]}

\* A tool request at which lines 219-225 raise: the run ends there.
EndsRun(tool_call) ==
  LET args == json_loads(tool_call.function.arguments)
      name == tool_call.function.name
  IN  \/ ~args.ok
      \/ name = "web_search" /\ ~HasKey(args.value, "query")
      \/ name = "read_page" /\ ~HasKey(args.value, "url")

\* The number of places `r` differs from the plain assistant message: a
\* content, every request that is not the plain one, every request after
\* the first (a last request that ends the run counts once, not twice).
ResponseCost(r) ==
  LET n == Len(r.tool_calls)
      Odd(i) == /\ \/ r.tool_calls[i].function.name # "web_search"
                   \/ r.tool_calls[i].function.arguments # ArgsQuery
      Further(i) == ~(i = n /\ EndsRun(r.tool_calls[i]))
  IN  (IF r.content = "" THEN 0 ELSE 1)
      + Cardinality({i \in 2..n : Further(i)})
      + Cardinality({i \in 1..n : Odd(i)})
      + (IF r.tool_calls[1].id = 1 THEN 0 ELSE 1)

\* The tool-requesting assistant messages that differ from the plain one in
\* exactly k places.
ResponsesByCost ==
  [k \in 0..MaxVaried |->
     {r \in UNION {ResponsesOf(n) : n \in 1..MaxRequests} : ResponseCost(r) = k}]

\* What the network does to one request of a tool during a chat: it
\* answers, it times out, or it answers with an error status.
SearchNets ==
  { Net("ok", 200, "", << <<"results", PyStr(<<"R">>)>> >>, <<>>),
    Net("ReadTimeout", 0, "Read timed out.", <<>>, <<>>),
    Net("HTTPError", 503, "503 Server Error", <<>>, <<>>) }
\* A page text of n characters.
PageText(n) == [i \in 1..n |-> <<"a", "b", " ">>[(i % 3) + 1]]

\* The pages fetched during a chat are short ones.
PageNets ==
  { Net("ok", 200, "", <<>>, PageText(4)),
    Net("ReadTimeout", 0, "Read timed out.", <<>>, <<>>),
    Net("HTTPError", 404, "404 Client Error", <<>>, <<>>) }

\* Every way a request fails when an executor is called directly.
Failures ==
  { Net("ReadTimeout", 0, "Read timed out.", <<>>, <<>>),
    Net("ConnectTimeout", 0, "Connect timed out.", <<>>, <<>>),
    Net("HTTPError", 404, "404 Client Error", <<>>, <<>>),
    Net("HTTPError", 503, "503 Server Error", <<>>, <<>>),
    Net("ConnectionError", 0, "Connection refused", <<>>, <<>>),
    Net("MissingSchema", 0, "Invalid URL: No scheme supplied", <<>>, <<>>),
    Net("ValueError", 200, "Expecting value", <<>>, <<>>) }
NoNet == Net("none", 0, "", <<>>, <<>>)

\* ------------------------------------------------------------------ chat
VARIABLES messages,   \* the conversation sent to the model on every call
  pc,         \* "AWAITING_MODEL", "EXECUTING_TOOLS", "DONE" (chat returned)
              \* or "RAISED" (chat ended with an exception)
  turn,       \* the loop variable of `for turn in range(max_turns)`
  message,    \* response.choices[0].message of the last model call
  idx,        \* position of `tool_call` in message.tool_calls (from 1)
  result,     \* what chat returned
  exit,       \* how chat ended: "success", "budget", or the exception's name
  calls,      \* client.chat.completions.create calls made so far
  responses,  \* the assistant messages those calls returned, in order
  varied,     \* places where this run differed from the plain run so far
  tool,       \* the last direct call of a tool executor and what it returned
  frames,     \* concurrent invocations of chat: the locals of each
  heap,       \* the list objects that the `messages` of those are bound to
  registry    \* the module-level `tools` and `client`

vars == <<messages, pc, turn, message, idx, result, exit, calls, responses,
          varied, tool, frames, heap, registry>>

NoMessage == [content |-> None, tool_calls |-> <<>>]

\* As list_append, but the list is bound anew to the one message.
list_append_Rebind(list, m) == <<m>>

\* messages.append(m), lines 198 and 232.
list_append(list, m) == Append(list, m)
\* `result` before chat has returned.
NoResult == [content |-> "", tool_calls |-> ""]

\* As AssistantMessage, but carrying the first tool request only (the
\* message is split, one request per message).
AssistantMessage_FirstRequestOnly(m) ==
  [role |-> "assistant",
   content |-> Or(m.content, ""),
   tool_calls |-> << [id |-> m.tool_calls[1].id,
                      type |-> "function",
                      function |-> [name |-> m.tool_calls[1].function.name,
                                    arguments |-> m.tool_calls[1].function.arguments]] >>]

\* As AssistantMessage, but with the content as the model gave it.
AssistantMessage_RawContent(m) ==
  [role |-> "assistant",
   content |-> m.content,
   tool_calls |-> [i \in 1..Len(m.tool_calls) |->
                     [id |-> m.tool_calls[i].id,
                      type |-> "function",
                      function |-> [name |-> m.tool_calls[i].function.name,
                                    arguments |-> m.tool_calls[i].function.arguments]]]]

\* The dict appended for the assistant message of a tool-requesting turn.
AssistantMessage(m) ==
  [role |-> "assistant",
   content |-> Or(m.content, ""),
   tool_calls |-> [i \in 1..Len(m.tool_calls) |->
                     [id |-> m.tool_calls[i].id,
                      type |-> "function",
                      function |-> [name |-> m.tool_calls[i].function.name,
                                    arguments |-> m.tool_calls[i].function.arguments]]]]

\* As ToolMessage, but every result is filed under the id of the turn's
\* first request.
ToolMessage_FirstId(tool_call, tool_result) ==
  [role |-> "tool",
   tool_call_id |-> 1,
   name |-> tool_call.function.name,
   content |-> json_dumps(tool_result)]

\* As ToolMessage, but every result is filed under the name web_search.
ToolMessage_SearchName(tool_call, tool_result) ==
  [role |-> "tool",
   tool_call_id |-> tool_call.id,
   name |-> "web_search",
   content |-> json_dumps(tool_result)]

\* The dict appended for the result of one tool request.
ToolMessage(tool_call, tool_result) ==
  [role |-> "tool",
   tool_call_id |-> tool_call.id,
   name |-> tool_call.function.name,
   content |-> json_dumps(tool_result)]

\* As FinalAnswer, but with the `or ""` of the appended assistant message.
FinalAnswer_OrEmpty(m) == [content |-> Or(m.content, ""), tool_calls |-> None]

\* As FinalAnswer, but with the fallback text of the budget-exhausted path.
FinalAnswer_Fallback(m) == [content |-> Or(m.content, Fallback), tool_calls |-> None]

\* Lines 242-245: the value returned for an answer without tool requests.
FinalAnswer(m) == [content |-> m.content, tool_calls |-> None]

\* As BudgetAnswer, but without the fallback text.
BudgetAnswer_NoFallback(m) == [content |-> m.content, tool_calls |-> None]

\* Lines 250-253: the value returned when the turns are used up.
BudgetAnswer(m) == [content |-> Or(m.content, Fallback), tool_calls |-> None]

\* Lines 219-227: parse the arguments, route by name, run the tool.
\* `exc` names the exception that leaves the loop body, "" when none does.
Dispatch(tool_call, net) ==
  LET args == json_loads(tool_call.function.arguments)
      name == tool_call.function.name
      Ran(r) == IF r.raised THEN [exc |-> net.kind, tool_result |-> <<>>]
                ELSE [exc |-> "", tool_result |-> r.value]
  IN  IF ~args.ok THEN [exc |-> "JSONDecodeError", tool_result |-> <<>>]
      ELSE IF name = "web_search"
        THEN IF HasKey(args.value, "query")
             THEN Ran(web_search(Get(args.value, "query"), net))
             ELSE [exc |-> "KeyError", tool_result |-> <<>>]
      ELSE IF name = "read_page"
        THEN IF HasKey(args.value, "url")
             THEN Ran(read_page(Get(args.value, "url"), net))
             ELSE [exc |-> "KeyError", tool_result |-> <<>>]
      ELSE [exc |-> "",
            tool_result |-> << <<"error", PyStr(<<"Unknown tool: ", name>>)>> >>]

\* The outbound request a tool request leads to, if it leads to one.
NetsFor(tool_call) ==
  LET args == json_loads(tool_call.function.arguments)
      name == tool_call.function.name
  IN  IF args.ok /\ name = "web_search" /\ HasKey(args.value, "query")
        THEN SearchNets
      ELSE IF args.ok /\ name = "read_page" /\ HasKey(args.value, "url")
        THEN PageNets
      ELSE {NoNet}

Invocations == 1..MaxInvocations

\* The locals of an invocation that has not begun.
IdleFrame ==
  [pc |-> "IDLE", list |-> 0, user |-> "", turn |-> 0, message |-> NoMessage,
   idx |-> 0, responses |-> <<>>, exit |-> ""]

NoTool == [name |-> "", input |-> "", net |-> NoNet, ret |-> Returns(<<>>)]

Init ==
  /\ messages \in {<<[role |-> "user", content |-> u]>> : u \in UserMessages}
  /\ pc = "AWAITING_MODEL"
  /\ turn = 0
  /\ message = NoMessage
  /\ idx = 0
  /\ result = NoResult
  /\ exit = ""
  /\ calls = 0
  /\ responses = <<>>
  /\ varied = 0
  /\ tool = NoTool
  /\ frames = [r \in Invocations |-> IdleFrame]
  /\ heap = [l \in Invocations |-> <<>>]
  /\ registry = [tools |-> {"web_search", "read_page"}, client |-> "OpenAI"]

\* Lines 185-211: the model answers with tool requests; the assistant
\* message is appended and the tool loop starts.
ModelRequestsTools ==
  /\ pc = "AWAITING_MODEL"
  /\ \E k \in 0..(MaxVaried - varied) : \E r \in ResponsesByCost[k] :
       /\ varied' = varied + k
       /\ message' = r
       /\ responses' = Append(responses, r)
       /\ messages' = list_append(messages, AssistantMessage(r))
  /\ calls' = calls + 1
  /\ idx' = 1
  /\ pc' = "EXECUTING_TOOLS"
  /\ UNCHANGED <<turn, result, exit, tool, frames, heap, registry>>

\* As ModelAnswers, but the answer is appended to the conversation as well.
ModelAnswers_AppendsAnswer ==
  /\ pc = "AWAITING_MODEL"
  /\ \E r \in ResponsesOf(0) :
       /\ message' = r
       /\ responses' = Append(responses, r)
       /\ result' = FinalAnswer(r)
       /\ messages' = list_append(messages, AssistantMessage(r))
  /\ calls' = calls + 1
  /\ exit' = "success"
  /\ pc' = "DONE"
  /\ UNCHANGED <<turn, idx, varied, tool, frames, heap, registry>>

\* Lines 185-194, 238-245: the model answers without tool requests.
ModelAnswers ==
  /\ pc = "AWAITING_MODEL"
  /\ \E r \in ResponsesOf(0) :
       /\ message' = r
       /\ responses' = Append(responses, r)
       /\ result' = FinalAnswer(r)
  /\ calls' = calls + 1
  /\ exit' = "success"
  /\ pc' = "DONE"
  /\ UNCHANGED <<messages, turn, idx, varied, tool, frames, heap, registry>>

\* As ModelCallFails, but the failure is swallowed and the call is made
\* again in the next turn.
ModelCallFails_Retries ==
  /\ pc = "AWAITING_MODEL"
  /\ calls < max_turns
  /\ calls' = calls + 1
  /\ exit' = "APIError"
  /\ pc' = "AWAITING_MODEL"
  /\ UNCHANGED <<messages, turn, message, idx, result, responses, varied, tool, frames, heap, registry>>

\* Lines 185-189: the model call raises; nothing in chat catches it.
ModelCallFails ==
  /\ pc = "AWAITING_MODEL"
  /\ calls' = calls + 1
  /\ exit' = "APIError"
  /\ pc' = "RAISED"
  /\ UNCHANGED <<messages, turn, message, idx, result, responses, varied, tool, frames, heap, registry>>

\* Lines 214-237 for one tool request, then the end of the `for` loops
\* (lines 179, 214) and, after the last turn, lines 247-253.
ExecuteTool ==
  /\ pc = "EXECUTING_TOOLS"
  /\ LET tool_call == message.tool_calls[idx] IN
     \E net \in NetsFor(tool_call) :
       LET d == Dispatch(tool_call, net)
           cost == IF net.kind \in {"ok", "none"} THEN 0 ELSE 1
       IN  /\ varied + cost <= MaxVaried
           /\ varied' = varied + cost
           /\ IF d.exc # ""
              THEN /\ exit' = d.exc
                   /\ pc' = "RAISED"
                   /\ UNCHANGED <<messages, turn, idx, result>>
              ELSE /\ messages' = list_append(messages, ToolMessage(tool_call, d.tool_result))
                   /\ IF idx < Len(message.tool_calls)
                      THEN /\ idx' = idx + 1
                           /\ UNCHANGED <<pc, turn, result, exit>>
                      ELSE IF turn + 1 < max_turns
                      THEN /\ turn' = turn + 1
                           /\ pc' = "AWAITING_MODEL"
                           /\ UNCHANGED <<idx, result, exit>>
                      ELSE /\ result' = BudgetAnswer(message)
                           /\ exit' = "budget"
                           /\ pc' = "DONE"
                           /\ UNCHANGED <<idx, turn>>
  /\ UNCHANGED <<message, calls, responses, tool, frames, heap, registry>>

\* ------------------------------------------- the executors called directly
Queries == {"X", "", "weather today"}
Urls == {"https://example.com", "http://localhost:1/", "example"}

PageLengths == (0..MaxOver) \cup ((max_chars - MaxOver)..(max_chars + MaxOver))

ChatIdle ==
  UNCHANGED <<messages, pc, turn, message, idx, result, exit, calls,
              responses, varied, frames, heap, registry>>

\* web_search(query), lines 32-60.
CallWebSearch ==
  /\ \E query \in Queries :
       \E net \in SearchNets \cup Failures :
         tool' = [name |-> "web_search", input |-> query, net |-> net,
                  ret |-> web_search(query, net)]
  /\ ChatIdle

\* read_page(url), lines 63-109.
CallReadPage ==
  /\ \E url \in Urls :
       \E net \in {Net("ok", 200, "", <<>>, PageText(n)) : n \in PageLengths}
                    \cup Failures :
         tool' = [name |-> "read_page", input |-> url, net |-> net,
                  ret |-> read_page(url, net)]
  /\ ChatIdle

NextTools == CallWebSearch \/ CallReadPage

SpecTools == Init /\ [][NextTools]_vars

\* ------------------------------------------------ concurrent invocations
\* As NewList, but `messages` is one module-level list that every
\* invocation uses.
NewList_Shared(r) == 1

\* Lines 173-175: `messages = [...]` makes a list object of the
\* invocation's own.
NewList(r) == r

SingleIdle ==
  UNCHANGED <<messages, pc, turn, message, idx, result, exit, calls,
              responses, varied, tool>>

\* Lines 171-177 of invocation r.
Begin(r) ==
  /\ frames[r].pc = "IDLE"
  /\ \E u \in UserMessages :
       /\ frames' = [frames EXCEPT ![r] =
                       [IdleFrame EXCEPT !.pc = "AWAITING_MODEL",
                                         !.list = NewList(r), !.user = u]]
       /\ heap' = [heap EXCEPT ![NewList(r)] = <<[role |-> "user", content |-> u]>>]
  /\ UNCHANGED registry
  /\ SingleIdle

\* Lines 185-211 of invocation r (the plain tool request).
RequestsTools(r) ==
  /\ frames[r].pc = "AWAITING_MODEL"
  /\ \E m \in ResponsesByCost[0] :
       /\ frames' = [frames EXCEPT ![r].message = m,
                                   ![r].responses = Append(@, m),
                                   ![r].idx = 1,
                                   ![r].pc = "EXECUTING_TOOLS"]
       /\ heap' = [heap EXCEPT ![frames[r].list] = list_append(@, AssistantMessage(m))]
  /\ UNCHANGED registry
  /\ SingleIdle

\* Lines 185-194, 238-245 of invocation r.
Answers(r) ==
  /\ frames[r].pc = "AWAITING_MODEL"
  /\ \E m \in ResponsesOf(0) :
       frames' = [frames EXCEPT ![r].message = m,
                                ![r].responses = Append(@, m),
                                ![r].exit = "success",
                                ![r].pc = "DONE"]
  /\ UNCHANGED <<heap, registry>>
  /\ SingleIdle

\* Lines 185-189 of invocation r: the model call raises.
CallFails(r) ==
  /\ frames[r].pc = "AWAITING_MODEL"
  /\ frames' = [frames EXCEPT ![r].exit = "APIError", ![r].pc = "RAISED"]
  /\ UNCHANGED <<heap, registry>>
  /\ SingleIdle

\* Lines 214-253 of invocation r for one tool request whose outbound
\* request is answered.
Executes(r) ==
  /\ frames[r].pc = "EXECUTING_TOOLS"
  /\ LET f == frames[r]
         tool_call == f.message.tool_calls[f.idx]
     IN \E net \in {n \in NetsFor(tool_call) : n.kind \in {"ok", "none"}} :
          LET d == Dispatch(tool_call, net)
          IN  IF d.exc # ""
              THEN /\ frames' = [frames EXCEPT ![r].exit = d.exc, ![r].pc = "RAISED"]
                   /\ UNCHANGED heap
              ELSE /\ heap' = [heap EXCEPT ![f.list] =
                                 list_append(@, ToolMessage(tool_call, d.tool_result))]
                   /\ frames' =
                        IF f.idx < Len(f.message.tool_calls)
                        THEN [frames EXCEPT ![r].idx = @ + 1]
                        ELSE IF f.turn + 1 < max_turns
                        THEN [frames EXCEPT ![r].turn = @ + 1,
                                            ![r].pc = "AWAITING_MODEL"]
                        ELSE [frames EXCEPT ![r].exit = "budget", ![r].pc = "DONE"]
  /\ UNCHANGED registry
  /\ SingleIdle

NextConcurrent ==
  \E r \in Invocations :
    Begin(r) \/ RequestsTools(r) \/ Answers(r) \/ CallFails(r) \/ Executes(r)

SpecConcurrent == Init /\ [][NextConcurrent]_vars

Next == ModelRequestsTools \/ ModelAnswers \/ ModelCallFails \/ ExecuteTool

Spec == Init /\ [][Next]_vars

\* ================================================================ claims
\* Position in `messages` of the assistant message of the i-th turn, given
\* that every earlier turn was recorded in full (1 is the user message).
RECURSIVE Start(_)
Start(i) ==
  IF i = 1 THEN 2 ELSE Start(i - 1) + 1 + Len(responses[i - 1].tool_calls)

\* The i-th turn is in the conversation in full: its assistant message, then
\* one tool message per request, in request order.
TurnRecorded(i) ==
  LET p == Start(i)
      reqs == responses[i].tool_calls
  IN  /\ p + Len(reqs) <= Len(messages)
      /\ messages[p].role = "assistant"
      /\ Len(messages[p].tool_calls) = Len(reqs)
      /\ \A j \in 1..Len(reqs) :
           /\ messages[p].tool_calls[j].id = reqs[j].id
           /\ messages[p + j].role = "tool"
           /\ messages[p + j].tool_call_id = reqs[j].id

\* C1. Whenever chat is about to call the model, and whenever it has
\* returned, every assistant message of the conversation with N tool
\* requests is followed at once by exactly N tool messages and then by no
\* further tool message, every request id is the tool_call_id of exactly one
\* of those N, and every tool message lies in such a block.
C1_ToolCallPairing ==
  pc \in {"AWAITING_MODEL", "DONE"} =>
    /\ \A p \in 1..Len(messages) :
         messages[p].role = "assistant" =>
           LET reqs == messages[p].tool_calls
               N == Len(reqs)
           IN  /\ p + N <= Len(messages)
               /\ \A q \in (p + 1)..(p + N) : messages[q].role = "tool"
               /\ p + N + 1 <= Len(messages) => messages[p + N + 1].role # "tool"
               /\ \A j \in 1..N :
                    Cardinality({q \in (p + 1)..(p + N) :
                                   messages[q].tool_call_id = reqs[j].id}) = 1
    /\ \A q \in 1..Len(messages) :
         messages[q].role = "tool" =>
           \E p \in 1..(q - 1) :
             /\ messages[p].role = "assistant"
             /\ q <= p + Len(messages[p].tool_calls)

\* Chat returned after a turn with two tool requests whose ids came in
\* descending order, followed by at least one more tool-requesting turn.
C1_Witness ==
  /\ pc = "DONE"
  /\ \E p \in 1..Len(messages) :
       /\ messages[p].role = "assistant"
       /\ Len(messages[p].tool_calls) = 2
       /\ messages[p].tool_calls[1].id = 2
       /\ p + 3 <= Len(messages)

\* C2. If the first response of the model has no tool requests, chat has
\* returned in its first turn after one model call, the conversation still
\* holds the user message only (no tool ran), and the value returned has
\* the model's text as content and tool_calls null.
C2_DirectAnswer ==
  (Len(responses) >= 1 /\ responses[1].tool_calls = <<>>) =>
    /\ pc = "DONE"
    /\ exit = "success"
    /\ turn = 0
    /\ calls = 1
    /\ Len(responses) = 1
    /\ Len(messages) = 1
    /\ messages[1].role = "user"
    /\ result.content = responses[1].content
    /\ result.tool_calls = None

\* The model answered the first call without tool requests and without text.
C2_Witness ==
  /\ pc = "DONE"
  /\ Len(responses) = 1
  /\ responses[1].tool_calls = <<>>
  /\ responses[1].content = None

\* C3. When the model has answered max_turns times, each time with at least
\* one tool request, and chat has ended, it has ended by the turns being
\* used up, after exactly max_turns model calls.
C3_AlwaysToolsEndsOnBudget ==
  ( /\ pc \in {"DONE", "RAISED"}
    /\ Len(responses) = max_turns
    /\ \A i \in 1..max_turns : responses[i].tool_calls # <<>> ) =>
    /\ pc = "DONE"
    /\ exit = "budget"
    /\ calls = max_turns

\* C4. Chat makes at most max_turns model calls, and when every model call
\* has returned it does not stop anywhere but in DONE (a run that has ended
\* with an exception never reaches DONE).
C4_ReachesDone ==
  /\ calls <= max_turns
  /\ (calls = Len(responses) /\ pc \notin {"AWAITING_MODEL", "EXECUTING_TOOLS"}) =>
       pc = "DONE"

\* The j-th request of the i-th turn, and whether the tool loop has come
\* to it.
Request(i, j) == responses[i].tool_calls[j]
Requests == {<<i, j>> \in (1..Len(responses)) \X (1..MaxRequests + 1) :
               j <= Len(responses[i].tool_calls)}
Reached(i, j) ==
  \/ i < Len(responses)
  \/ pc \in {"AWAITING_MODEL", "DONE"}
  \/ idx >= j
\* ... and whether the tool loop has left it behind.
Passed(i, j) ==
  \/ i < Len(responses)
  \/ pc \in {"AWAITING_MODEL", "DONE"}
  \/ idx > j

\* C5. A tool request for a name that is not registered gets a tool message
\* of its own whose content is an error naming the tool, and the loop goes
\* on: chat does not end with an exception at that request.
C5_UnknownToolContinues ==
  \A ij \in Requests :
    LET i == ij[1]
        j == ij[2]
        name == Request(i, j).function.name
    IN  (name \notin {"web_search", "read_page"} /\ Reached(i, j)) =>
          /\ ~(pc = "RAISED" /\ i = Len(responses) /\ idx = j)
          /\ (Start(i) + j <= Len(messages)) =>
               /\ messages[Start(i) + j].role = "tool"
               /\ messages[Start(i) + j].tool_call_id = Request(i, j).id
               /\ "error" \in Range(messages[Start(i) + j].content)
               /\ name \in Range(messages[Start(i) + j].content)

\* C6. A tool request whose arguments text does not parse gets a tool
\* message of its own whose content is an error, and the loop goes on: chat
\* does not end with the parser's exception.
C6_UnparsableArgumentsAreData ==
  /\ exit # "JSONDecodeError"
  /\ \A ij \in Requests :
       LET i == ij[1]
           j == ij[2]
       IN  (~json_loads(Request(i, j).function.arguments).ok /\ Passed(i, j)) =>
             /\ Start(i) + j <= Len(messages)
             /\ messages[Start(i) + j].role = "tool"
             /\ messages[Start(i) + j].tool_call_id = Request(i, j).id
             /\ "error" \in Range(messages[Start(i) + j].content)

\* C7. Whatever the model asks for and whatever a tool does, chat ends by
\* returning; the only exception that leaves it is that of a failed model
\* call.
C7_OnlyModelFailuresSurface ==
  exit \in {"", "success", "budget", "APIError"}

\* C8. When chat returns because the turns are used up, the content it
\* returns is the content of the last assistant message received when that
\* is non-empty, else the fallback text; tool_calls is null.
C8_BudgetAnswer ==
  exit = "budget" =>
    LET last == responses[Len(responses)]
    IN  /\ pc = "DONE"
        /\ result.tool_calls = None
        /\ IF last.content \notin {None, ""}
           THEN result.content = last.content
           ELSE result.content = Fallback

\* The turns were used up and the last assistant message had no content.
C8_Witness ==
  /\ exit = "budget"
  /\ responses[Len(responses)].content = None
  /\ result.content = Fallback

\* C9. Once the model has answered k times, turns 1..k-1 are in the
\* conversation in full; and if its k-th answer is the first without tool
\* requests, chat has returned that answer's content with tool_calls null
\* after exactly k model calls, the conversation being exactly the user
\* message and turns 1..k-1.
C9_AnswerOnTurnK ==
  LET k == Len(responses)
  IN  /\ \A i \in 1..(k - 1) : TurnRecorded(i)
      /\ (k >= 1 /\ responses[k].tool_calls = <<>>) =>
           /\ \A i \in 1..(k - 1) : responses[i].tool_calls # <<>>
           /\ pc = "DONE"
           /\ exit = "success"
           /\ calls = k
           /\ result.content = responses[k].content
           /\ result.tool_calls = None
           /\ Len(messages) = Start(k) - 1

\* One search request on turn 1, its result appended, the answer on turn 2.
C9_Witness ==
  /\ pc = "DONE"
  /\ calls = 2
  /\ Len(responses) = 2
  /\ Len(responses[1].tool_calls) = 1
  /\ responses[1].tool_calls[1].function.name = "web_search"
  /\ Len(messages) = 3
  /\ messages[3].role = "tool"
  /\ result.content = "4"

\* C10. web_search and read_page never raise: when the request times out
\* the dict returned has an error text saying it timed out and the input
\* (query or url) as given, and every other failure of the request or of
\* the handling of its answer is returned as a dict with an error text and
\* the input as well.
C10_ExecutorsNeverRaise ==
  tool.name # "" =>
    LET echo == IF tool.name = "web_search" THEN "query" ELSE "url"
        d == tool.ret.value
    IN  /\ ~tool.ret.raised
        /\ tool.net.kind # "ok" =>
             /\ HasKey(d, "error")
             /\ Get(d, "error").t = "str"
             /\ Len(Get(d, "error").parts) >= 1
             /\ HasKey(d, echo)
             /\ Get(d, echo) = PyStr(<<tool.input>>)
        /\ tool.net.kind \in {"ReadTimeout", "ConnectTimeout"} =>
             Get(d, "error").parts =
               IF tool.name = "web_search"
               THEN <<"Search request timed out">>
               ELSE <<"Page request timed out">>

\* A search whose connection attempt timed out.
C10_Witness ==
  /\ tool.name = "web_search"
  /\ tool.net.kind = "ConnectTimeout"
  /\ tool.input = "weather today"
  /\ ~tool.ret.raised
  /\ Get(tool.ret.value, "error").parts = <<"Search request timed out">>

\* C11. When the text of the page is longer than max_chars, the text that
\* read_page returns is at most max_chars plus the length of the marker
\* long and ends with the marker "... (truncated)" (what precedes the
\* marker being the first max_chars characters of the page).
C11_LongTextIsCut ==
  ( /\ tool.name = "read_page"
    /\ tool.net.kind = "ok"
    /\ Len(tool.net.text) > max_chars ) =>
    LET text == Get(tool.ret.value, "text").parts
        m == Len(TruncationMarker)
    IN  /\ ~tool.ret.raised
        /\ Len(text) <= max_chars + m
        /\ Len(text) >= m
        /\ SubSeq(text, Len(text) - m + 1, Len(text)) =
             <<".", ".", ".", " ", "(", "t", "r", "u", "n", "c", "a", "t", "e", "d", ")">>
        /\ SubSeq(text, 1, Len(text) - m) = SubSeq(tool.net.text, 1, max_chars)

\* A page one character longer than max_chars was fetched and cut.
C11_Witness ==
  /\ tool.name = "read_page"
  /\ tool.net.kind = "ok"
  /\ Len(tool.net.text) = max_chars + 1
  /\ Len(Get(tool.ret.value, "text").parts) = max_chars + Len(TruncationMarker)

\* C20. A page text of at most max_chars characters is returned as it is,
\* with no marker added, and in every successful result `length` is the
\* length of the returned text, marker included (so it is max_chars plus
\* the length of the marker for a text that was cut).
C20_LengthOfReturnedText ==
  (tool.name = "read_page" /\ tool.net.kind = "ok") =>
    LET d == tool.ret.value
        text == Get(d, "text").parts
    IN  /\ ~tool.ret.raised
        /\ Get(d, "url") = PyStr(<<tool.input>>)
        /\ Len(tool.net.text) <= max_chars => text = tool.net.text
        /\ Get(d, "length").t = "int"
        /\ Get(d, "length").n = Len(text)
        /\ Len(tool.net.text) > max_chars => Get(d, "length").n = max_chars + 15

\* A page of max_chars + 3 characters: `length` is beyond max_chars.
C20_Witness ==
  /\ tool.name = "read_page"
  /\ tool.net.kind = "ok"
  /\ Len(tool.net.text) = max_chars + 3
  /\ Get(tool.ret.value, "length").n > max_chars

\* A page of exactly max_chars characters comes back whole.
C20_WitnessUncut ==
  /\ tool.name = "read_page"
  /\ tool.net.kind = "ok"
  /\ Len(tool.net.text) = max_chars
  /\ Get(tool.ret.value, "text").parts = tool.net.text

\* The turns in which the model asked for tools.
ToolTurns == {i \in 1..Len(responses) : responses[i].tool_calls # <<>>}

\* C12. The conversation holds one assistant message per tool-requesting
\* turn. The one of turn i stands right after the user message and the
\* messages of the earlier turns, hence before every tool message of its
\* own turn, and carries all the requests of the turn in the model's order.
C12_AssistantAppendedOnce ==
  /\ Cardinality({p \in 1..Len(messages) : messages[p].role = "assistant"})
       = Cardinality(ToolTurns)
  /\ \A i \in ToolTurns :
       LET p == Start(i)
           reqs == responses[i].tool_calls
       IN  /\ p <= Len(messages)
           /\ messages[p].role = "assistant"
           /\ Cardinality({q \in 1..(p - 1) : messages[q].role = "assistant"}) = i - 1
           /\ Cardinality({q \in 1..(p - 1) : messages[q].role = "tool"}) = p - 1 - i
           /\ Len(messages[p].tool_calls) = Len(reqs)
           /\ \A j \in 1..Len(reqs) :
                /\ messages[p].tool_calls[j].id = reqs[j].id
                /\ messages[p].tool_calls[j].type = "function"
                /\ messages[p].tool_calls[j].function = reqs[j].function

\* Two tool-requesting turns, the first with two requests, are recorded.
C12_Witness ==
  /\ Len(responses) >= 2
  /\ Len(responses[1].tool_calls) = 2
  /\ responses[1].tool_calls[1].function.name # responses[1].tool_calls[2].function.name
  /\ responses[2].tool_calls # <<>>
  /\ Len(messages) >= 5

\* C13. The j-th message after the assistant message of a turn is a tool
\* message with the id and the tool name of the turn's j-th request; while
\* the loop is at request idx (or has ended there with an exception), the
\* requests before it, and no others, have their tool message.
C13_ToolResultsInRequestOrder ==
  /\ \A i \in ToolTurns :
       \A j \in 1..Len(responses[i].tool_calls) :
         Start(i) + j <= Len(messages) =>
           /\ messages[Start(i) + j].role = "tool"
           /\ messages[Start(i) + j].tool_call_id = responses[i].tool_calls[j].id
           /\ messages[Start(i) + j].name = responses[i].tool_calls[j].function.name
  /\ (pc = "EXECUTING_TOOLS" \/ (pc = "RAISED" /\ exit # "APIError")) =>
       /\ idx \in 1..Len(message.tool_calls)
       /\ Len(messages) = Start(Len(responses)) + idx - 1

\* The loop is at the second of two requests for different tools: the first
\* has its tool message, the second has none yet.
C13_Witness ==
  /\ pc = "EXECUTING_TOOLS"
  /\ idx = 2
  /\ message.tool_calls[1].function.name = "read_page"
  /\ message.tool_calls[2].function.name = "web_search"
  /\ messages[Len(messages)].role = "tool"
  /\ messages[Len(messages)].name = "read_page"

\* C18. The assistant message appended for a turn whose content is absent
\* or empty has the empty string as content.
C18_EmptyContentAppended ==
  \A i \in ToolTurns :
    responses[i].content \in {None, ""} =>
      /\ Start(i) <= Len(messages)
      /\ messages[Start(i)].role = "assistant"
      /\ messages[Start(i)].content = ""

\* A tool-requesting assistant message without content (None) was appended.
C18_Witness ==
  \E i \in ToolTurns :
    /\ responses[i].content = None
    /\ messages[Start(i)].role = "assistant"
    /\ messages[Start(i)].content = ""

\* C14. A tool message that carries an error result stands in the
\* conversation like any other, and the turn it belongs to is not cut short
\* after it: chat has not ended with an exception in that turn, so the
\* remaining requests of the turn get their tool messages and the next
\* model call is made.
C14_ErrorResultDoesNotStopTurn ==
  \A i \in ToolTurns :
    \A j \in 1..Len(responses[i].tool_calls) :
      ( /\ Start(i) + j <= Len(messages)
        /\ messages[Start(i) + j].role = "tool"
        /\ "error" \in Range(messages[Start(i) + j].content) ) =>
        ~(pc = "RAISED" /\ exit # "APIError" /\ i = Len(responses))

\* C15. The conversation starts as one user message, and every step leaves
\* the messages it holds in place, adding at the end only.
C15_AppendOnly ==
  /\ Len(messages) = 1 /\ messages[1].role = "user"
  /\ [][ /\ Len(messages') >= Len(messages)
         /\ \A q \in 1..Len(messages) : messages'[q] = messages[q] ]_vars

\* The conversation has grown to the user message and two whole turns.
C15_Witness ==
  /\ Len(messages) >= 5
  /\ messages[1].role = "user"
  /\ messages[2].role = "assistant"
  /\ messages[3].role = "tool"
  /\ messages[Len(messages)].role = "tool"
  /\ pc = "AWAITING_MODEL"

\* C17. The step in which a model call fails ends chat with that failure
\* and appends nothing, and no step follows it: no further model call, no
\* tool, no message.
C17_FailedModelCallEndsChat ==
  [][ /\ exit # "APIError"
      /\ exit' = "APIError" =>
           /\ pc' = "RAISED"
           /\ calls' = calls + 1
           /\ messages' = messages
           /\ responses' = responses
           /\ result' = result ]_vars

\* The third model call failed, after two turns of tool requests.
C17_Witness ==
  /\ exit = "APIError"
  /\ pc = "RAISED"
  /\ calls = 3
  /\ Len(responses) = 2
  /\ Len(messages) >= 5

\* C19. When the model is called, the conversation ends with the user
\* message (first turn) or with a tool message (later turns), and every
\* assistant message of the conversation carries at least one tool request:
\* the final answer is returned, not appended.
C19_ModelSeesUserOrToolLast ==
  /\ pc = "AWAITING_MODEL" =>
       IF turn = 0
       THEN Len(messages) = 1 /\ messages[1].role = "user"
       ELSE Len(messages) > 1 /\ messages[Len(messages)].role = "tool"
  /\ \A p \in 1..Len(messages) :
       messages[p].role = "assistant" => Len(messages[p].tool_calls) >= 1
  /\ exit = "success" =>
       \/ Len(messages) = 1
       \/ messages[Len(messages)].role = "tool"

\* The model is about to be called for the third turn, and in another run
\* would answer: a tool message is last.
C19_Witness ==
  /\ pc = "AWAITING_MODEL"
  /\ turn = 2
  /\ messages[Len(messages)].role = "tool"
  /\ Cardinality({p \in 1..Len(messages) : messages[p].role = "assistant"}) = 2

\* The length of a conversation after the user message and the first k of
\* the assistant messages `rs`, each followed by its tool messages.
RECURSIVE LengthAfter(_, _)
LengthAfter(rs, k) ==
  IF k = 0 THEN 1
  ELSE LengthAfter(rs, k - 1)
       + (IF rs[k].tool_calls = <<>> THEN 0 ELSE 1 + Len(rs[k].tool_calls))

\* The conversation of invocation r holds r's user message and the
\* messages of r's own turns, and nothing else.
OwnConversation(r) ==
  LET f == frames[r]
      conv == heap[f.list]
      k == Len(f.responses)
      whole == IF f.pc \in {"EXECUTING_TOOLS", "RAISED"} /\ f.exit # "APIError"
               THEN k - 1 ELSE k
      expected == IF whole = k THEN LengthAfter(f.responses, k)
                  ELSE LengthAfter(f.responses, k - 1) + f.idx
  IN  /\ f.list \in Invocations
      /\ Len(conv) = expected
      /\ conv[1] = [role |-> "user", content |-> f.user]
      /\ \A i \in 1..k :
           f.responses[i].tool_calls # <<>> =>
             LET p == LengthAfter(f.responses, i - 1) + 1
             IN  /\ conv[p].role = "assistant"
                 /\ \A j \in 1..Len(f.responses[i].tool_calls) :
                      p + j <= Len(conv) =>
                        /\ conv[p + j].role = "tool"
                        /\ conv[p + j].tool_call_id = f.responses[i].tool_calls[j].id

\* C16. With several invocations of chat under way, a step leaves the
\* conversation of every invocation that did not take it as it was, no two
\* invocations use the same list, every conversation holds its own user
\* message and the messages of its own turns only, and the module-level
\* `tools` and `client` are never written.
C16_ConversationsAreIsolated ==
  [][ /\ \A r \in Invocations :
           (frames[r].pc # "IDLE" /\ frames'[r] = frames[r]) =>
             heap'[frames[r].list] = heap[frames[r].list]
      /\ \A r \in Invocations :
           \/ frames'[r].pc = "IDLE"
           \/ /\ frames'[r] = frames[r]
              /\ heap'[frames[r].list] = heap[frames[r].list]
           \/ OwnConversation(r)'
      /\ \A r, q \in Invocations :
           (r # q /\ frames'[r].pc # "IDLE" /\ frames'[q].pc # "IDLE") =>
             frames'[r].list # frames'[q].list
      /\ registry' = registry ]_vars

\* Two invocations are in the middle of their tool loops, at different
\* turns, each with a conversation of its own length.
C16_Witness ==
  /\ frames[1].pc = "EXECUTING_TOOLS"
  /\ frames[2].pc = "EXECUTING_TOOLS"
  /\ frames[1].turn = 2
  /\ frames[2].turn = 0
  /\ Len(heap[frames[1].list]) = 6
  /\ Len(heap[frames[2].list]) = 2

====
